---- MODULE Spec2Model ----
(***************************************************************************)
(* Aggregation, viewport culling and debounced recomputation of the map    *)
(* components of gnykka/google-maps-example.                               *)
(*                                                                         *)
(* Variants of the component that the repository holds:                    *)
(*   "MapboxMap"     src/unnamed/part_000                                  *)
(*   "MapboxMapApp"  src/src/MapboxMapApp.js, lines 148-350                *)
(*   "MapboxMapAppLodash"  src/src/MapboxMapApp.js, lines 1-146            *)
(*   "GoogleMapApp"  src/src/GoogleMapApp.js (aggregation and filter only) *)
(***************************************************************************)
EXTENDS Integers, Sequences, FiniteSets, TLC

VARIABLES
  variant,         \* which component of the repository runs
  markers,         \* markers.json: the parsed observation records
  pc,              \* "aggregate" / "filter" (function runs) or "app" (component run)
  locationMap,     \* the Map built by the aggregation effect, in insertion order
  aggIdx,          \* number of records the forEach of the aggregation has visited
  allMarkers,      \* React state: the cluster array
  visibleMarkers,  \* React state: the VisibleSet
  queuedAll,       \* setAllMarkers call waiting for the next render
  queuedVisible,   \* setVisibleMarkers call waiting for the next render
  tooltipInfo,     \* React state: data of the tooltip of the hovered marker
  queuedTooltip,   \* setTooltipInfo call waiting for the next render
  mapRef,          \* mapRef.current: "null" or "map"
  mounted,         \* the component is mounted
  everMounted,     \* the component has been mounted once
  needRender,      \* a state update is queued, a render is due
  needEffects,     \* a render has been committed, its passive effects are due
  instances,       \* the debounced onBoundsChanged closures, one per render
  listeners,       \* instances registered with map.on, in registration order
  timers,          \* pending setTimeout entries, in firing order
  bounds,          \* what the map's getBounds() returns
  lastFit,         \* the last fitBounds call
  error,           \* uncaught error raised by a timer callback
  lastExec,        \* history: the last execution of a recompute callback
  burst,           \* history: the current burst of notifications
  settledInput,    \* history: a notification was processed since bounds/clusters changed
  rendered         \* what renderMarker returned last: size and label of a marker

vars == <<variant, markers, pc, locationMap, aggIdx, allMarkers, visibleMarkers,
          queuedAll, queuedVisible, tooltipInfo, queuedTooltip, mapRef, mounted, everMounted, needRender, needEffects, instances,
          listeners, timers, bounds, lastFit, error, lastExec, burst, settledInput,
          rendered>>

-----------------------------------------------------------------------------
(* Bounds of the model *)

MaxRecords == 3      \* length of the record lists the function runs enumerate
MaxHandlers == 3     \* renders (debounce instances) of one component run
Ticks == 2           \* clock steps per quiescence window
MaxCount == 2        \* saturation of the history counters
MaxMarkerCount == 1100  \* largest cluster count handed to renderMarker

(* Program constants *)

timeout == 100
circleThreshold == 10

-----------------------------------------------------------------------------
(* JSON values of a coordinate: a number or null *)

JsNum(n) == [isNull |-> FALSE, num |-> n]
JsNull == [isNull |-> TRUE, num |-> 0]

\* `latitude && longitude`: null, undefined and 0 are falsy
TruthyOnlyFirst(lat, lng) == ~lat.isNull /\ lat.num # 0
Truthy(lat, lng) ==
  /\ ~lat.isNull /\ lat.num # 0
  /\ ~lng.isNull /\ lng.num # 0

DigitChar == <<"0", "1", "2", "3", "4", "5", "6", "7", "8", "9">>

RECURSIVE Digits(_)
Digits(n) ==
  IF n < 10 THEN <<DigitChar[n + 1]>>
  ELSE Digits(n \div 10) \o <<DigitChar[(n % 10) + 1]>>

\* what a template literal writes for a coordinate value
ToStr(x) ==
  IF x.isNull THEN <<"n", "u", "l", "l">>
  ELSE IF x.num < 0 THEN <<"-">> \o Digits(0 - x.num)
  ELSE Digits(x.num)

\* `${latitude}-${longitude}`
locationKeyNoSeparator(latitude, longitude) == ToStr(latitude) \o ToStr(longitude)
locationKey(latitude, longitude) == ToStr(latitude) \o <<"-">> \o ToStr(longitude)

-----------------------------------------------------------------------------
(* The aggregation effect *)

MapHas(lm, k) == \E i \in 1..Len(lm) : lm[i].key = k
MapIndex(lm, k) == CHOOSE i \in 1..Len(lm) : lm[i].key = k

\* locationMap.set(locationKey, { count: 0, idIpPairs: [], ...location })
NewEntryCountOne(k, location) ==
  [key |-> k,
   value |-> [count |-> 1, idIpPairs |-> <<>>,
              geoCoordinates |-> location.geoCoordinates,
              city |-> location.city]]
NewEntry(k, location) ==
  [key |-> k,
   value |-> [count |-> 0, idIpPairs |-> <<>>,
              geoCoordinates |-> location.geoCoordinates,
              city |-> location.city]]

\* the body of markers.forEach
ProcessRecordCountTwice(lm, rec) ==
  LET latitude == rec.location.geoCoordinates.latitude
      longitude == rec.location.geoCoordinates.longitude
      k == locationKey(latitude, longitude)
      lm1 == IF ~MapHas(lm, k) THEN Append(lm, NewEntry(k, rec.location)) ELSE lm
      i == MapIndex(lm1, k)
  IN IF Truthy(latitude, longitude)
     THEN [lm1 EXCEPT ![i].value.count = @ + 2,
                      ![i].value.idIpPairs =
                          Append(@, [id |-> rec.id, ipAddress |-> rec.ipAddress])]
     ELSE lm

ProcessRecordLastSeen(lm, rec) ==
  LET latitude == rec.location.geoCoordinates.latitude
      longitude == rec.location.geoCoordinates.longitude
      k == locationKey(latitude, longitude)
      lm1 == IF ~MapHas(lm, k) THEN Append(lm, NewEntry(k, rec.location)) ELSE lm
      i == MapIndex(lm1, k)
  IN IF Truthy(latitude, longitude)
     THEN [lm1 EXCEPT ![i].value.count = @ + 1,
                      ![i].value.city = rec.location.city,
                      ![i].value.idIpPairs =
                          Append(@, [id |-> rec.id, ipAddress |-> rec.ipAddress])]
     ELSE lm

ProcessRecord(lm, rec) ==
  LET latitude == rec.location.geoCoordinates.latitude
      longitude == rec.location.geoCoordinates.longitude
      k == locationKey(latitude, longitude)
      lm1 == IF ~MapHas(lm, k) THEN Append(lm, NewEntry(k, rec.location)) ELSE lm
      i == MapIndex(lm1, k)
  IN IF Truthy(latitude, longitude)
     THEN [lm1 EXCEPT ![i].value.count = @ + 1,
                      ![i].value.idIpPairs =
                          Append(@, [id |-> rec.id, ipAddress |-> rec.ipAddress])]
     ELSE lm

RECURSIVE Aggregate(_, _)
Aggregate(lm, recs) ==
  IF recs = <<>> THEN lm ELSE Aggregate(ProcessRecord(lm, Head(recs)), Tail(recs))

\* the comparators given to sort: (a, b) => a.count - b.count and its reverse
CompareCounts(desc, a, b) ==
  IF desc THEN b.count - a.count ELSE a.count - b.count

\* Array.prototype.sort is stable: x goes behind every element not after it
InsertByCount(desc, s, x) ==
  LET p == Cardinality({i \in 1..Len(s) : CompareCounts(desc, s[i], x) <= 0})
  IN SubSeq(s, 1, p) \o <<x>> \o SubSeq(s, p + 1, Len(s))

RECURSIVE SortInto(_, _, _)
SortInto(desc, sorted, rest) ==
  IF rest = <<>> THEN sorted
  ELSE SortInto(desc, InsertByCount(desc, sorted, Head(rest)), Tail(rest))

\* the component sorts the aggregated array largest first
SortsDescending(v) == v = "MapboxMap"
\* the component sorts the filtered array again, largest first
SortsAfterFilter(v) == v = "MapboxMapApp"

\* Array.from(locationMap, ([, value]) => value).sort(...)
uniqueLocationsArrayUnsorted(v, lm) == [i \in 1..Len(lm) |-> lm[i].value]
uniqueLocationsArray(v, lm) ==
  SortInto(SortsDescending(v), <<>>, [i \in 1..Len(lm) |-> lm[i].value])

-----------------------------------------------------------------------------
(* The viewport filter *)

\* bounds.contains(point), boundary included
Contains(b, g) ==
  /\ b.south <= g.latitude.num /\ g.latitude.num <= b.north
  /\ b.west <= g.longitude.num /\ g.longitude.num <= b.east

\* the array handed to setVisibleMarkers
filteredMarkersReversed(v, all, b) ==
  LET kept == SelectSeq(all, LAMBDA m : Contains(b, m.geoCoordinates))
      out == IF SortsAfterFilter(v) THEN SortInto(TRUE, <<>>, kept) ELSE kept
  IN [i \in 1..Len(out) |-> out[Len(out) + 1 - i]]
filteredMarkers(v, all, b) ==
  LET kept == SelectSeq(all, LAMBDA m : Contains(b, m.geoCoordinates))
  IN IF SortsAfterFilter(v) THEN SortInto(TRUE, <<>>, kept) ELSE kept

\* the array the recompute read, after the recompute: filter builds a new array
\* and sort works on that new array, so the array read is left as it was
sourceSortedInPlace(v, all) ==
  IF SortsAfterFilter(v) THEN SortInto(TRUE, <<>>, all) ELSE all
sourceAfterRecompute(v, all) == all

\* new LngLatBounds() extended by every cluster
Min(S) == CHOOSE x \in S : \A y \in S : x <= y
Max(S) == CHOOSE x \in S : \A y \in S : x >= y
Extent(all) ==
  LET lats == {all[i].geoCoordinates.latitude.num : i \in 1..Len(all)}
      lngs == {all[i].geoCoordinates.longitude.num : i \in 1..Len(all)}
  IN [south |-> Min(lats), north |-> Max(lats), west |-> Min(lngs), east |-> Max(lngs)]

World == [south |-> -90, north |-> 90, west |-> -180, east |-> 180]
RegionA == [south |-> 1, north |-> 5, west |-> 1, east |-> 5]
RegionB == [south |-> 10, north |-> 20, west |-> 1, east |-> 20]
Regions == {World, RegionA, RegionB}
\* the views the user moves the map to in the component runs
ViewRegions == {World, RegionA}

-----------------------------------------------------------------------------
(* Inputs *)

Rec(i, lat, lng, c) ==
  [id |-> i, ipAddress |-> i,
   location |-> [geoCoordinates |-> [latitude |-> lat, longitude |-> lng], city |-> c]]

CoordPairs ==
  {<<JsNull, JsNum(2)>>, <<JsNum(1), JsNum(0)>>, <<JsNum(1), JsNum(2)>>,
   <<JsNum(1), JsNum(12)>>, <<JsNum(11), JsNum(2)>>, <<JsNum(-1), JsNum(2)>>}
Cities == {"a", "b"}
Choices == CoordPairs \X Cities

MkMarkers(f) ==
  [i \in DOMAIN f |-> Rec(i, f[i][1][1], f[i][1][2], f[i][2])]
BoundedInputs ==
  {MkMarkers(f) : f \in UNION {[1..n -> Choices] : n \in 0..MaxRecords}}

\* record lists of the component runs
SampleMarkers ==
  {<<>>,
   <<Rec(1, JsNum(11), JsNum(12), "a"), Rec(2, JsNum(1), JsNum(2), "a"),
     Rec(3, JsNum(11), JsNum(12), "b"), Rec(4, JsNum(0), JsNum(2), "a")>>}

Variants == {"MapboxMap", "MapboxMapApp", "GoogleMapApp"}
DebounceVariants == {"MapboxMap", "MapboxMapApp"}
\* the component whose setup effect both registers the handlers and fits the map
FitsInSetupEffect(v) == v = "MapboxMapAppLodash"

NoUpdate == [set |-> FALSE, value |-> <<>>]
NoExec == [h |-> 0, elapsed |-> 0, cur |-> TRUE, mounted |-> TRUE,
           mapNull |-> FALSE, threw |-> FALSE, wrote |-> NoUpdate, pending |-> 0,
           region |-> World, readLive |-> TRUE, moved |-> FALSE]
NoBurst == [n |-> 0, tight |-> TRUE, execs |-> 0, gap |-> 0]
NoFit == [called |-> FALSE, empty |-> FALSE, fits |-> 0]
NoTooltip == [geoCoordinates |-> [latitude |-> JsNum(0), longitude |-> JsNum(0)],
              address |-> "", count |-> 0, visible |-> FALSE]
NoTooltipUpdate == [set |-> FALSE, value |-> NoTooltip]
\* the components that show a tooltip on hover
HasTooltip(v) == v \in {"MapboxMap", "MapboxMapApp"}
NoMarker == [count |-> 0, isCrowded |-> FALSE, size |-> 0,
             label |-> [shown |-> FALSE, text |-> 0]]

-----------------------------------------------------------------------------
(* Function runs: the aggregation, record by record, then the filter *)

hoverVars == <<tooltipInfo, queuedTooltip>>

appVars == <<queuedAll, queuedVisible, tooltipInfo, queuedTooltip, mapRef, mounted, everMounted, needRender,
             needEffects, instances, listeners, timers, lastFit, error, lastExec,
             burst, settledInput>>

InitApp ==
  /\ queuedAll = NoUpdate /\ queuedVisible = NoUpdate
  /\ tooltipInfo = NoTooltip /\ queuedTooltip = NoTooltipUpdate
  /\ mapRef = "null" /\ mounted = FALSE /\ everMounted = FALSE
  /\ needRender = FALSE /\ needEffects = "no"
  /\ instances = <<>> /\ listeners = <<>> /\ timers = <<>>
  /\ lastFit = NoFit /\ error = "none" /\ lastExec = NoExec
  /\ burst = NoBurst /\ settledInput = FALSE

InitPure ==
  /\ variant \in Variants
  /\ markers \in BoundedInputs
  /\ pc = "aggregate"
  /\ locationMap = <<>> /\ aggIdx = 0
  /\ allMarkers = <<>> /\ visibleMarkers = <<>>
  /\ bounds = World
  /\ rendered = NoMarker
  /\ InitApp

\* one call of the forEach callback
AggStep ==
  /\ pc = "aggregate" /\ aggIdx < Len(markers)
  /\ locationMap' = ProcessRecord(locationMap, markers[aggIdx + 1])
  /\ aggIdx' = aggIdx + 1
  /\ UNCHANGED <<variant, markers, pc, allMarkers, visibleMarkers, bounds, rendered>>
  /\ UNCHANGED appVars

\* Array.from(...).sort(...) and setAllMarkers
AggFinish ==
  /\ pc = "aggregate" /\ aggIdx = Len(markers)
  /\ allMarkers' = uniqueLocationsArray(variant, locationMap)
  /\ pc' = "filter"
  /\ UNCHANGED <<variant, markers, locationMap, aggIdx, visibleMarkers, bounds,
                 rendered>>
  /\ UNCHANGED appVars

\* the recompute callback run against a region
ApplyFilter(r) ==
  /\ pc = "filter"
  /\ bounds' = r
  /\ visibleMarkers' = filteredMarkers(variant, allMarkers, r)
  /\ allMarkers' = sourceAfterRecompute(variant, allMarkers)
  /\ lastExec' = [NoExec EXCEPT !.region = r,
                                !.wrote = [set |-> TRUE, value |-> visibleMarkers']]
  /\ UNCHANGED <<variant, markers, pc, locationMap, aggIdx, rendered>>
  /\ UNCHANGED <<queuedAll, queuedVisible, mapRef, mounted, everMounted, needRender,
                 needEffects, instances, listeners, timers, lastFit, error, burst,
                 settledInput>>
  /\ UNCHANGED hoverVars

NextPure ==
  \/ AggStep
  \/ AggFinish
  \/ \E r \in Regions : ApplyFilter(r)

SpecPure == InitPure /\ [][NextPure]_vars

-----------------------------------------------------------------------------
(* Marker rendering: the size and the label renderMarker gives to a count *)

\* the Mapbox components size the div in px, GoogleMapApp scales the symbol
DotSize(v) == IF v = "GoogleMapApp" THEN 3 ELSE 4
BandSizes(v) == IF v = "GoogleMapApp" THEN <<10, 12, 14>> ELSE <<16, 20, 26>>

renderMarkerInclusiveBands(v, count) ==
  LET isCrowded == count >= circleThreshold
      size == IF ~isCrowded THEN DotSize(v)
              ELSE IF count >= 1000 THEN BandSizes(v)[3]
              ELSE IF count >= 100 THEN BandSizes(v)[2]
              ELSE BandSizes(v)[1]
  IN [count |-> count, isCrowded |-> isCrowded, size |-> size,
      label |-> [shown |-> isCrowded, text |-> IF isCrowded THEN count ELSE 0]]
renderMarker(v, count) ==
  LET isCrowded == count >= circleThreshold
      size == IF ~isCrowded THEN DotSize(v)
              ELSE IF count > 1000 THEN BandSizes(v)[3]
              ELSE IF count > 100 THEN BandSizes(v)[2]
              ELSE BandSizes(v)[1]
  IN [count |-> count, isCrowded |-> isCrowded, size |-> size,
      label |-> [shown |-> isCrowded, text |-> IF isCrowded THEN count ELSE 0]]

InitRender ==
  /\ variant \in Variants
  /\ markers = <<>>
  /\ pc = "render"
  /\ locationMap = <<>> /\ aggIdx = 0
  /\ allMarkers = <<>> /\ visibleMarkers = <<>>
  /\ bounds = World
  /\ rendered = NoMarker
  /\ InitApp

\* renderMarker called for a cluster of the given count
RenderMarker(count) ==
  /\ pc = "render"
  /\ rendered' = renderMarker(variant, count)
  /\ UNCHANGED <<variant, markers, pc, locationMap, aggIdx, allMarkers,
                 visibleMarkers, bounds>>
  /\ UNCHANGED appVars

NextRender == \E count \in 1..MaxMarkerCount : RenderMarker(count)

SpecRender == InitRender /\ [][NextRender]_vars

-----------------------------------------------------------------------------
(* Component runs *)

TickStep == timeout \div Ticks
Sat(n) == IF n < MaxCount THEN n + 1 ELSE n
Later(t) == IF t + TickStep < timeout THEN t + TickStep ELSE timeout
Sooner(t) == IF t > TickStep THEN t - TickStep ELSE 0

\* the function debounce returns, called on instance h:
\* clearTimeout(timer); timer = setTimeout(..., timeout)
\* (`seen` remembers the bounds of the map at the time of the call)
debounceNoClear(ts, h) ==
  Append([i \in 1..Len(ts) |->
            IF ts[i].h = h THEN [ts[i] EXCEPT !.cur = FALSE] ELSE ts[i]],
         [h |-> h, rem |-> timeout, cur |-> TRUE, seen |-> bounds])
debounce(ts, h) ==
  Append(SelectSeq(ts, LAMBDA t : ~(t.h = h /\ t.cur)),
         [h |-> h, rem |-> timeout, cur |-> TRUE, seen |-> bounds])

\* the map calls every listener of the event, in registration order
RECURSIVE CallListeners(_, _)
CallListeners(ts, hs) ==
  IF hs = <<>> THEN ts ELSE CallListeners(debounce(ts, Head(hs)), Tail(hs))

\* map.on('moveend' | 'zoomend' | 'resize', onBoundsChanged) of the effect
RegisterOnce(ls, h) == IF ls = <<>> THEN <<h>> ELSE ls
Register(ls, h) == Append(ls, h)

Init ==
  /\ variant \in DebounceVariants
  /\ markers \in SampleMarkers
  /\ pc = "app"
  /\ locationMap = <<>> /\ aggIdx = 0
  /\ allMarkers = <<>> /\ visibleMarkers = <<>>
  /\ bounds = World
  /\ rendered = NoMarker
  /\ InitApp

pureVars == <<variant, markers, pc, locationMap, aggIdx, rendered>>

\* the function body runs: useState values are read, debounce(...) builds a new
\* onBoundsChanged that closes over this render's allMarkers
NewInstance(all) == [allMarkers |-> all, since |-> timeout]

\* first render and commit; the ref is attached
Mount ==
  /\ pc = "app" /\ ~everMounted
  /\ mounted' = TRUE /\ everMounted' = TRUE
  /\ mapRef' = "map"
  /\ instances' = <<NewInstance(allMarkers)>>
  /\ needEffects' = "mount"
  /\ UNCHANGED <<allMarkers, visibleMarkers, queuedAll, queuedVisible, needRender,
                 listeners, timers, bounds, lastFit, error, lastExec, burst,
                 settledInput>>
  /\ UNCHANGED pureVars
  /\ UNCHANGED hoverVars

\* a render caused by a queued state update
Render ==
  /\ pc = "app" /\ mounted /\ needRender /\ needEffects = "no"
  /\ Len(instances) < MaxHandlers
  /\ LET all == IF queuedAll.set THEN queuedAll.value ELSE allMarkers
     IN /\ allMarkers' = all
        /\ instances' = Append(instances, NewInstance(all))
  /\ visibleMarkers' = IF queuedVisible.set THEN queuedVisible.value ELSE visibleMarkers
  /\ tooltipInfo' = IF queuedTooltip.set THEN queuedTooltip.value ELSE tooltipInfo
  /\ queuedAll' = NoUpdate /\ queuedVisible' = NoUpdate
  /\ queuedTooltip' = NoTooltipUpdate
  /\ needRender' = FALSE
  /\ needEffects' = IF queuedAll.set THEN "allMarkers" ELSE "other"
  /\ UNCHANGED <<mapRef, mounted, everMounted, listeners, timers, bounds, lastFit,
                 error, lastExec, burst, settledInput>>
  /\ UNCHANGED pureVars

\* the passive effects of the last render, in source order
Effects ==
  /\ pc = "app" /\ mounted /\ needEffects # "no"
  /\ mapRef = "map"
  \* aggregation effect, dependencies []
  /\ IF needEffects = "mount"
     THEN /\ queuedAll' = [set |-> TRUE,
                           value |-> uniqueLocationsArray(variant, Aggregate(<<>>, markers))]
          /\ needRender' = TRUE
     ELSE UNCHANGED <<queuedAll, needRender>>
  \* initial-bounds effect, dependencies [mapRef, allMarkers]; in the component
  \* that fits inside the setup effect, dependencies [mapRef, allMarkers,
  \* onBoundsChanged]: it runs after every render
  /\ IF FitsInSetupEffect(variant) \/ needEffects \in {"mount", "allMarkers"}
     THEN IF allMarkers = <<>>
          THEN /\ lastFit' = [lastFit EXCEPT !.called = TRUE, !.empty = TRUE]
               /\ UNCHANGED <<bounds, settledInput>>
          ELSE /\ lastFit' = [called |-> TRUE, empty |-> FALSE, fits |-> Sat(lastFit.fits)]
               /\ bounds' = Extent(allMarkers)
               /\ settledInput' = FALSE
     ELSE UNCHANGED <<lastFit, bounds, settledInput>>
  \* handler-registration effect, dependencies [mapRef, onBoundsChanged]
  /\ listeners' = Register(listeners, Len(instances))
  /\ needEffects' = "no"
  /\ UNCHANGED <<allMarkers, visibleMarkers, queuedVisible, mapRef, mounted,
                 everMounted, instances, timers, error, lastExec, burst>>
  /\ UNCHANGED pureVars
  /\ UNCHANGED hoverVars

\* the user pans or zooms: the map's bounds change
MoveMap(r) ==
  /\ pc = "app" /\ mounted /\ r # bounds
  /\ bounds' = r
  /\ settledInput' = FALSE
  /\ UNCHANGED burst
  /\ UNCHANGED <<allMarkers, visibleMarkers, queuedAll, queuedVisible, mapRef,
                 mounted, everMounted, needRender, needEffects, instances,
                 listeners, timers, lastFit, error, lastExec>>
  /\ UNCHANGED pureVars
  /\ UNCHANGED hoverVars

\* the map emits moveend, zoomend or resize
Notify ==
  /\ pc = "app" /\ mounted /\ listeners # <<>>
  /\ Len(timers) <= MaxHandlers
  /\ timers' = CallListeners(timers, listeners)
  /\ instances' = [i \in 1..Len(instances) |->
                     IF \E j \in 1..Len(listeners) : listeners[j] = i
                     THEN [instances[i] EXCEPT !.since = 0] ELSE instances[i]]
  /\ burst' = IF timers = <<>>
              THEN [n |-> 1, tight |-> TRUE, execs |-> 0, gap |-> 0]
              ELSE [n |-> Sat(burst.n), tight |-> burst.tight /\ burst.gap < timeout,
                    execs |-> burst.execs, gap |-> 0]
  /\ settledInput' = TRUE
  /\ UNCHANGED <<allMarkers, visibleMarkers, queuedAll, queuedVisible, mapRef,
                 mounted, everMounted, needRender, needEffects, listeners, bounds,
                 lastFit, error, lastExec>>
  /\ UNCHANGED pureVars
  /\ UNCHANGED hoverVars

\* time passes
Tick ==
  /\ pc = "app" /\ \E i \in 1..Len(timers) : timers[i].rem > 0
  /\ timers' = [i \in 1..Len(timers) |-> [timers[i] EXCEPT !.rem = Sooner(@)]]
  /\ instances' = [i \in 1..Len(instances) |-> [instances[i] EXCEPT !.since = Later(@)]]
  /\ burst' = [burst EXCEPT !.gap = Later(@)]
  /\ UNCHANGED <<allMarkers, visibleMarkers, queuedAll, queuedVisible, mapRef,
                 mounted, everMounted, needRender, needEffects, listeners, bounds,
                 lastFit, error, lastExec, settledInput>>
  /\ UNCHANGED pureVars
  /\ UNCHANGED hoverVars

\* const bounds = mapRef.current.getBounds(), in the callback of timer t
getBoundsWhenScheduled(t) == t.seen
getBounds(t) == bounds

\* the earliest due timer runs the callback given to debounce: onBoundsChanged
TimerFires ==
  /\ pc = "app" /\ timers # <<>> /\ Head(timers).rem = 0
  /\ LET t == Head(timers)
         source == instances[t.h].allMarkers
         result == filteredMarkers(variant, source, getBounds(t))
         exec == [h |-> t.h, elapsed |-> instances[t.h].since, cur |-> t.cur,
                  mounted |-> mounted, mapNull |-> mapRef = "null", region |-> getBounds(t),
                  readLive |-> getBounds(t) = bounds, moved |-> t.seen # bounds,
                  pending |-> Cardinality({i \in 1..Len(timers) : timers[i].h = t.h})]
     IN /\ timers' = Tail(timers)
        /\ IF mapRef = "null"
           THEN \* mapRef.current.getBounds() on null
                /\ error' = "TypeError"
                /\ lastExec' = exec @@ [threw |-> TRUE, wrote |-> NoUpdate]
                /\ UNCHANGED <<queuedVisible, needRender, allMarkers, instances>>
           ELSE /\ queuedVisible' = [set |-> TRUE, value |-> result]
                /\ needRender' = TRUE
                /\ lastExec' = exec @@ [threw |-> FALSE,
                                        wrote |-> [set |-> TRUE, value |-> result]]
                \* the array of the closure is the array of every closure and
                \* of the state that holds the same array
                /\ allMarkers' = IF allMarkers = source
                                 THEN sourceAfterRecompute(variant, source)
                                 ELSE allMarkers
                /\ instances' =
                     [i \in 1..Len(instances) |->
                        IF instances[i].allMarkers = source
                        THEN [instances[i] EXCEPT
                                !.allMarkers = sourceAfterRecompute(variant, source)]
                        ELSE instances[i]]
                /\ UNCHANGED error
  /\ burst' = [burst EXCEPT !.execs = Sat(@)]
  /\ UNCHANGED <<visibleMarkers, queuedAll, mapRef, mounted, everMounted,
                 needEffects, listeners, bounds, lastFit, settledInput>>
  /\ UNCHANGED pureVars
  /\ UNCHANGED hoverVars

\* the component is torn down: the ref is detached, the map is removed
Unmount ==
  /\ pc = "app" /\ mounted
  /\ mounted' = FALSE
  /\ mapRef' = "null"
  /\ listeners' = <<>>
  /\ needRender' = FALSE /\ needEffects' = "no"
  /\ UNCHANGED <<allMarkers, visibleMarkers, queuedAll, queuedVisible, everMounted,
                 instances, timers, bounds, lastFit, error, lastExec, burst,
                 settledInput>>
  /\ UNCHANGED pureVars
  /\ UNCHANGED hoverVars

\* the view flyTo gives: centred on the marker, at markerZoom
ZoomedOn(g) ==
  [south |-> g.latitude.num - 1, north |-> g.latitude.num + 1,
   west |-> g.longitude.num - 1, east |-> g.longitude.num + 1]

\* onMarkerClick: mapRef.current.flyTo({ center, zoom: markerZoom, ... });
\* it calls no state setter
onMarkerClickShowsOnly(m) ==
  [bounds |-> ZoomedOn(m.geoCoordinates), visible |-> [set |-> TRUE, value |-> <<m>>]]
onMarkerClick(m) ==
  [bounds |-> ZoomedOn(m.geoCoordinates), visible |-> NoUpdate]

\* a click on the i-th rendered marker
MarkerClick(i) ==
  /\ pc = "app" /\ mounted /\ i \in 1..Len(visibleMarkers)
  /\ LET act == onMarkerClick(visibleMarkers[i])
     IN /\ bounds' = act.bounds
        /\ UNCHANGED burst
        /\ queuedVisible' = IF act.visible.set THEN act.visible ELSE queuedVisible
        /\ needRender' = (needRender \/ act.visible.set)
  /\ settledInput' = FALSE
  /\ UNCHANGED <<allMarkers, visibleMarkers, queuedAll, mapRef, mounted, everMounted,
                 needEffects, instances, listeners, timers, lastFit, error, lastExec>>
  /\ UNCHANGED pureVars
  /\ UNCHANGED hoverVars

\* onMouseEnterMarker on the i-th rendered marker
MouseEnterMarker(i) ==
  /\ pc = "app" /\ mounted /\ HasTooltip(variant) /\ i \in 1..Len(visibleMarkers)
  /\ queuedTooltip' =
       [set |-> TRUE,
        value |-> [geoCoordinates |-> visibleMarkers[i].geoCoordinates,
                   address |-> visibleMarkers[i].city,
                   count |-> visibleMarkers[i].count,
                   visible |-> TRUE]]
  /\ needRender' = TRUE
  /\ UNCHANGED <<allMarkers, visibleMarkers, queuedAll, queuedVisible, tooltipInfo,
                 mapRef, mounted, everMounted, needEffects, instances, listeners,
                 timers, bounds, lastFit, error, lastExec, burst, settledInput>>
  /\ UNCHANGED pureVars

\* onMouseLeaveMarker: { ...tooltipInfo, visible: false } with this render's tooltipInfo
MouseLeaveMarker ==
  /\ pc = "app" /\ mounted /\ HasTooltip(variant) /\ visibleMarkers # <<>>
  \* the pointer is on a marker: the last tooltip set is that of an enter
  /\ IF queuedTooltip.set THEN queuedTooltip.value.visible ELSE tooltipInfo.visible
  /\ queuedTooltip' = [set |-> TRUE, value |-> [tooltipInfo EXCEPT !.visible = FALSE]]
  /\ needRender' = TRUE
  /\ UNCHANGED <<allMarkers, visibleMarkers, queuedAll, queuedVisible, tooltipInfo,
                 mapRef, mounted, everMounted, needEffects, instances, listeners,
                 timers, bounds, lastFit, error, lastExec, burst, settledInput>>
  /\ UNCHANGED pureVars

Next ==
  \/ Mount
  \/ Render
  \/ Effects
  \/ \E r \in ViewRegions : MoveMap(r)
  \/ Notify
  \/ Tick
  \/ TimerFires
  \/ Unmount
  \/ \E i \in 1..MaxRecords : MarkerClick(i)

Spec == Init /\ [][Next]_vars

\* the run in which the user only points at and clicks markers: the view
\* moves by flyTo alone and the component stays mounted
NextPointer ==
  \/ Mount
  \/ Render
  \/ Effects
  \/ Notify
  \/ Tick
  \/ TimerFires
  \/ \E i \in 1..MaxRecords : MarkerClick(i)
  \/ \E i \in 1..MaxRecords : MouseEnterMarker(i)
  \/ MouseLeaveMarker

SpecPointer == Init /\ [][NextPointer]_vars

\* the run of the component that fits the map inside its setup effect
InitLodash ==
  /\ variant = "MapboxMapAppLodash"
  /\ markers \in SampleMarkers
  /\ pc = "app"
  /\ locationMap = <<>> /\ aggIdx = 0
  /\ allMarkers = <<>> /\ visibleMarkers = <<>>
  /\ bounds = World
  /\ rendered = NoMarker
  /\ InitApp

SpecLodash == InitLodash /\ [][Next]_vars

\* a render when MaxHandlers debounce instances exist: the oldest instance is
\* dropped with its handler and its timers, the others move down by one
DropOldest(hs) ==
  LET kept == SelectSeq(hs, LAMBDA h : h # 1)
  IN [i \in 1..Len(kept) |-> kept[i] - 1]
RenderSaturated ==
  /\ pc = "app" /\ mounted /\ needRender /\ needEffects = "no"
  /\ Len(instances) = MaxHandlers
  /\ LET all == IF queuedAll.set THEN queuedAll.value ELSE allMarkers
     IN /\ allMarkers' = all
        /\ instances' = Append(Tail(instances), NewInstance(all))
  /\ listeners' = DropOldest(listeners)
  /\ timers' = LET kept == SelectSeq(timers, LAMBDA t : t.h # 1)
               IN [i \in 1..Len(kept) |-> [kept[i] EXCEPT !.h = @ - 1]]
  /\ visibleMarkers' = IF queuedVisible.set THEN queuedVisible.value ELSE visibleMarkers
  /\ tooltipInfo' = IF queuedTooltip.set THEN queuedTooltip.value ELSE tooltipInfo
  /\ queuedAll' = NoUpdate /\ queuedVisible' = NoUpdate
  /\ queuedTooltip' = NoTooltipUpdate
  /\ needRender' = FALSE
  /\ needEffects' = IF queuedAll.set THEN "allMarkers" ELSE "other"
  /\ UNCHANGED <<mapRef, mounted, everMounted, bounds, lastFit, error, lastExec,
                 burst, settledInput>>
  /\ UNCHANGED pureVars

\* the map emits moveend at the end of a change of view (fitBounds, flyTo, a
\* pan or zoom of the user)
NotifyDue == ~settledInput /\ Notify

\* the user moves the map, until the first notification is delivered
UserMoves(r) == burst.n = 0 /\ MoveMap(r)

\* the run of a component that is left alone after the first notification
NextQuiet ==
  \/ Mount
  \/ Render
  \/ RenderSaturated
  \/ Effects
  \/ \E r \in ViewRegions : UserMoves(r)
  \/ NotifyDue
  \/ Tick
  \/ TimerFires

InitQuiet ==
  /\ variant \in DebounceVariants \cup {"MapboxMapAppLodash"}
  /\ markers \in SampleMarkers
  /\ pc = "app"
  /\ locationMap = <<>> /\ aggIdx = 0
  /\ allMarkers = <<>> /\ visibleMarkers = <<>>
  /\ bounds = World
  /\ rendered = NoMarker
  /\ InitApp

\* React runs the renders and effects it has scheduled, the map emits the
\* events of a change of view, the clock advances and due timers run
Fairness ==
  /\ WF_vars(Render \/ RenderSaturated)
  /\ WF_vars(Effects)
  /\ WF_vars(NotifyDue)
  /\ WF_vars(Tick)
  /\ WF_vars(TimerFires)

SpecQuiet == InitQuiet /\ [][NextQuiet]_vars /\ Fairness

-----------------------------------------------------------------------------
(* Properties of the debounced recomputation (component runs) *)

\* C1: a burst of notifications, each less than `timeout` after the one before,
\* ends with exactly one recompute execution, done against the map bounds that
\* are current at the end of the burst.
DebounceCollapse ==
  (pc = "app" /\ mounted /\ burst.n >= 1 /\ burst.tight /\ timers = <<>>)
    => (burst.execs = 1 /\ lastExec.readLive)

\* C2: a recompute callback runs only when a full window has passed since the
\* latest notification to its debounce instance, and the timer that runs is the
\* one that latest notification started (an overtaken notification runs nothing).
TrailingEdgeReset ==
  lastExec.h # 0 => (lastExec.elapsed >= timeout /\ lastExec.cur)

TrailingEdgeResetWitness ==
  /\ lastExec.h # 0 /\ lastExec.mounted
  /\ burst.n >= 2 /\ burst.tight
  /\ timers = <<>>

\* C3: no recompute callback runs after the component has been torn down.
TeardownCancellation ==
  lastExec.h # 0 => lastExec.mounted

\* C4: a recompute that runs while mapRef.current is null raises no error and
\* sets the VisibleSet to the empty sequence.
ViewportUnavailable ==
  (lastExec.h # 0 /\ lastExec.mapNull)
    => (~lastExec.threw /\ lastExec.wrote = [set |-> TRUE, value |-> <<>>])

\* C5: when no timer is pending, the renders of the cluster array and their
\* effects are done, and a notification was processed after the last change of
\* the bounds and of the cluster array, the VisibleSet (the value last given to
\* setVisibleMarkers) holds exactly the clusters inside the current bounds.
Settled ==
  /\ pc = "app" /\ mounted
  /\ timers = <<>> /\ ~queuedAll.set /\ needEffects = "no"
  /\ settledInput

VisibleSet == IF queuedVisible.set THEN queuedVisible.value ELSE visibleMarkers

SettledConsistency ==
  Settled =>
    {VisibleSet[i] : i \in 1..Len(VisibleSet)} =
      {allMarkers[i] : i \in {j \in 1..Len(allMarkers) :
                                 Contains(bounds, allMarkers[j].geoCoordinates)}}

SettledConsistencyWitness ==
  /\ Settled
  /\ Len(VisibleSet) = 1 /\ Len(allMarkers) = 2
  /\ instances[1].allMarkers = <<>>
  /\ burst.execs >= 2

-----------------------------------------------------------------------------
(* Properties of the aggregation and of the filter (function runs) *)

Aggregated == pc = "filter"

Ascending(s) == \A i \in 1..(Len(s) - 1) : s[i].count <= s[i + 1].count
Descending(s) == \A i \in 1..(Len(s) - 1) : s[i].count >= s[i + 1].count

\* C6 as stated: the cluster array is sorted ascending by count, in every
\* component.
AscendingOrder == Aggregated => Ascending(allMarkers)

\* C6 as amended: the cluster array is sorted by count, largest first in the
\* MapboxMap component and smallest first in the other components.
SortedByCount ==
  Aggregated =>
    IF variant = "MapboxMap" THEN Descending(allMarkers) ELSE Ascending(allMarkers)

SortedByCountWitness ==
  /\ Aggregated /\ variant = "MapboxMap"
  /\ Len(allMarkers) = 2
  /\ allMarkers[1].count = 2 /\ allMarkers[2].count = 1
  /\ locationMap[1].value.count = 1

\* C7: the array a recompute writes is a subsequence of the cluster array in
\* the cluster array's order.
Position(m) == CHOOSE i \in 1..Len(allMarkers) : allMarkers[i] = m
FilterOrderPreservation ==
  Aggregated =>
    /\ \A i \in 1..Len(visibleMarkers) :
         \E j \in 1..Len(allMarkers) : allMarkers[j] = visibleMarkers[i]
    /\ \A i \in 1..(Len(visibleMarkers) - 1) :
         Position(visibleMarkers[i]) < Position(visibleMarkers[i + 1])

\* the records that carry both coordinates
HasCoordinates(rec) ==
  LET g == rec.location.geoCoordinates
  IN /\ ~g.latitude.isNull /\ g.latitude.num # 0
     /\ ~g.longitude.isNull /\ g.longitude.num # 0
ValidRecords == {i \in 1..Len(markers) : HasCoordinates(markers[i])}

RECURSIVE SumCounts(_)
SumCounts(s) == IF s = <<>> THEN 0 ELSE Head(s).count + SumCounts(Tail(s))

\* C8: the counts of the clusters add up to the number of records that carry
\* both coordinates.
CountConservation ==
  Aggregated => SumCounts(allMarkers) = Cardinality(ValidRecords)

CountConservationWitness ==
  /\ Aggregated
  /\ Cardinality(ValidRecords) = 2 /\ Len(markers) = 3
  /\ Len(allMarkers) = 1

\* C9: there is one cluster per distinct coordinate pair of the records that
\* carry both coordinates: no two clusters share a pair, and every member of a
\* cluster is a record of the cluster's pair.
AggregationUniqueness ==
  Aggregated =>
    /\ Len(allMarkers) =
         Cardinality({markers[i].location.geoCoordinates : i \in ValidRecords})
    /\ \A i, j \in 1..Len(allMarkers) :
         allMarkers[i].geoCoordinates = allMarkers[j].geoCoordinates => i = j
    /\ \A i \in 1..Len(allMarkers) : \A k \in 1..Len(allMarkers[i].idIpPairs) :
         markers[allMarkers[i].idIpPairs[k].id].location.geoCoordinates
           = allMarkers[i].geoCoordinates

AggregationUniquenessWitness ==
  /\ Aggregated
  /\ Len(allMarkers) = 2
  /\ \E i, j \in 1..2 :
       /\ allMarkers[i].geoCoordinates = [latitude |-> JsNum(1), longitude |-> JsNum(12)]
       /\ allMarkers[j].geoCoordinates = [latitude |-> JsNum(11), longitude |-> JsNum(2)]

\* how many times record i is a member of some cluster
Memberships(i) ==
  Cardinality({<<c, k>> \in (1..Len(allMarkers)) \X (1..Len(markers)) :
                 /\ k <= Len(allMarkers[c].idIpPairs)
                 /\ allMarkers[c].idIpPairs[k].id = i})

\* C10: a record with a falsy latitude or longitude is a member of no cluster
\* and no cluster stands at its coordinates; every other record is a member of
\* exactly one cluster.
FalsySkip ==
  Aggregated =>
    /\ \A i \in 1..Len(markers) :
         Memberships(i) = IF HasCoordinates(markers[i]) THEN 1 ELSE 0
    /\ \A c \in 1..Len(allMarkers) :
         \E i \in ValidRecords :
           markers[i].location.geoCoordinates = allMarkers[c].geoCoordinates

FalsySkipWitness ==
  /\ Aggregated
  /\ \E i, j, k \in 1..Len(markers) :
       /\ markers[i].location.geoCoordinates.latitude.isNull
       /\ markers[j].location.geoCoordinates.longitude = JsNum(0)
       /\ HasCoordinates(markers[k])
  /\ Len(allMarkers) = 1 /\ allMarkers[1].count = 1
\* the clusters built so far and the clusters of the cluster array
ClustersSoFar ==
  {locationMap[i].value : i \in 1..Len(locationMap)}
    \cup {allMarkers[i] : i \in 1..Len(allMarkers)}

\* C11: at every step of the aggregation and in the cluster array, a cluster
\* has count >= 1, count equal to the number of its members, and its members
\* in the order of the input records.
ClusterCountInvariant ==
  pc \in {"aggregate", "filter"} =>
    \A c \in ClustersSoFar :
      /\ c.count >= 1
      /\ c.count = Len(c.idIpPairs)
      /\ \A k \in 1..(Len(c.idIpPairs) - 1) : c.idIpPairs[k].id < c.idIpPairs[k + 1].id

ClusterCountInvariantWitness ==
  /\ pc = "aggregate" /\ aggIdx = 2 /\ Len(markers) = 3
  /\ Len(locationMap) = 1 /\ locationMap[1].value.count = 2

\* the first record that stands at the coordinates g
FirstRecordAt(g) ==
  CHOOSE i \in ValidRecords :
    /\ markers[i].location.geoCoordinates = g
    /\ \A j \in ValidRecords : markers[j].location.geoCoordinates = g => i <= j

\* C12: the descriptive fields of a cluster are those of the first input record
\* of its coordinates, whatever the later records of these coordinates carry.
FirstSeenMetadata ==
  pc \in {"aggregate", "filter"} =>
    \A c \in ClustersSoFar :
      c.city = markers[FirstRecordAt(c.geoCoordinates)].location.city

FirstSeenMetadataWitness ==
  /\ Aggregated
  /\ \E c \in 1..Len(allMarkers) :
       /\ allMarkers[c].count = 2
       /\ markers[allMarkers[c].idIpPairs[1].id].location.city
            # markers[allMarkers[c].idIpPairs[2].id].location.city
-----------------------------------------------------------------------------
(* Properties of the marker rendering *)

\* the sizes of the dot and of the three bands, as the components write them
TierSizes == IF variant = "GoogleMapApp" THEN <<3, 10, 12, 14>> ELSE <<4, 16, 20, 26>>

\* C13: a count below 10 gives the smallest size and no label; from 10 on the
\* label shows the count and the size is that of band 1 for 10..100, band 2 for
\* 101..1000, band 3 above 1000, each band larger than the one before.
DensityTiers ==
  rendered.count # 0 =>
    LET c == rendered.count
    IN /\ \A i \in 1..3 : TierSizes[i] < TierSizes[i + 1]
       /\ rendered.label.shown <=> c >= 10
       /\ rendered.label.shown => rendered.label.text = c
       /\ rendered.size = TierSizes[1] <=> c < 10
       /\ (10 <= c /\ c <= 100) => rendered.size = TierSizes[2]
       /\ (100 < c /\ c <= 1000) => rendered.size = TierSizes[3]
       /\ c > 1000 => rendered.size = TierSizes[4]

DensityTiersWitness ==
  /\ rendered.count = 1000
  /\ rendered.label.shown
  /\ rendered.size = TierSizes[3]
-----------------------------------------------------------------------------
(* Properties of the initial framing (component runs) *)

\* C14: fitBounds is never called while the cluster array is empty.
EmptyFramingNoOp == ~(lastFit.called /\ lastFit.empty)

\* C15: the view is fitted to the extent of the clusters at most once, at load;
\* no later render, recompute or notification fits it again.
InitialFramingOnce == lastFit.fits <= 1
-----------------------------------------------------------------------------
(* Further properties of the recomputation (component runs) *)

\* C16: a recompute filters against the bounds the map reports when the timer
\* fires, not against those of the moment its notification arrived.
RecomputeReadsLiveBounds ==
  (lastExec.h # 0 /\ ~lastExec.threw) =>
    /\ lastExec.readLive
    /\ \A i \in 1..Len(lastExec.wrote.value) :
         Contains(lastExec.region, lastExec.wrote.value[i].geoCoordinates)

RecomputeReadsLiveBoundsWitness ==
  /\ lastExec.h # 0 /\ ~lastExec.threw
  /\ lastExec.moved /\ lastExec.region = RegionA
  /\ Len(lastExec.wrote.value) = 1
  /\ Len(instances[lastExec.h].allMarkers) = 2
\* a step in which a timer runs its callback
RecomputeStep == timers # <<>> /\ timers' = Tail(timers)
\* the cluster array has been built and rendered
Built == Len(instances) >= 2 /\ ~queuedAll.set

\* C17: once built, the cluster array is never changed; a recompute leaves the
\* cluster array and the VisibleSet installed before it as they were, and hands
\* a new sequence to setVisibleMarkers.
SnapshotReplacement ==
  [][/\ Built => allMarkers' = allMarkers
     /\ RecomputeStep =>
          /\ allMarkers' = allMarkers
          /\ visibleMarkers' = visibleMarkers
          /\ \A i \in 1..Len(instances) :
               instances'[i].allMarkers = instances[i].allMarkers]_vars

SnapshotReplacementWitness ==
  /\ variant = "MapboxMapApp" /\ Built
  /\ lastExec.h # 0 /\ ~lastExec.threw
  /\ Len(lastExec.wrote.value) = 2 /\ Len(allMarkers) = 2
  /\ lastExec.wrote.value[1] = allMarkers[2]
  /\ allMarkers[1].count < allMarkers[2].count
\* C18: a debounce instance never has more than one pending timer, however
\* many notifications it received.
PendingOf(h) == {i \in 1..Len(timers) : timers[i].h = h}
NoQueueing ==
  \A h \in 1..Len(instances) : Cardinality(PendingOf(h)) <= 1

NoQueueingWitness ==
  /\ burst.n >= 2 /\ burst.execs = 0
  /\ Len(listeners) >= 2
  /\ \A h \in 1..Len(listeners) : Cardinality(PendingOf(listeners[h])) = 1
\* steps in which the user clicks a rendered marker or the pointer enters or
\* leaves one
ClickStep ==
  /\ bounds' # bounds
  /\ \E i \in 1..Len(visibleMarkers) : bounds' = ZoomedOn(visibleMarkers[i].geoCoordinates)
HoverStep == queuedTooltip' # queuedTooltip /\ queuedTooltip'.set

\* C19: a click on a marker and a pointer enter or leave change neither the
\* cluster array nor the VisibleSet; the VisibleSet changes only in the step in
\* which a scheduled recompute runs.
MarkerInteractionFrame ==
  [][/\ (ClickStep \/ HoverStep) =>
          (allMarkers' = allMarkers /\ VisibleSet' = VisibleSet)
     /\ VisibleSet' # VisibleSet => RecomputeStep]_vars

MarkerInteractionFrameWitness ==
  /\ Len(visibleMarkers) = 2
  /\ bounds = ZoomedOn(visibleMarkers[1].geoCoordinates)
  /\ queuedTooltip.set /\ queuedTooltip.value.visible
  /\ VisibleSet = visibleMarkers
\* C20: filtering the array a recompute wrote, against the same region, gives
\* that array again, element for element; a recompute that follows another
\* with the same bounds and the same cluster array writes an equal VisibleSet.
FilterIdempotence ==
  /\ []((Aggregated /\ lastExec.wrote.set) =>
          filteredMarkers(variant, visibleMarkers, bounds) = visibleMarkers)
  /\ [][(Aggregated /\ lastExec.wrote.set /\ lastExec'.wrote.set
           /\ bounds' = bounds /\ allMarkers' = allMarkers) =>
          visibleMarkers' = visibleMarkers]_vars

FilterIdempotenceWitness ==
  /\ Aggregated /\ lastExec.wrote.set
  /\ variant = "MapboxMapApp"
  /\ Len(visibleMarkers) = 2
  /\ visibleMarkers[1].count = 2 /\ visibleMarkers[2].count = 1
  /\ allMarkers[1].count = 1
-----------------------------------------------------------------------------
(* Properties of the handlers across renders (component runs) *)

\* C21: whatever renders have happened, the map holds at most one registered
\* handler, that of the latest render, and the whole component has at most one
\* recompute pending.
SinglePendingRecompute ==
  /\ Len(listeners) <= 1
  /\ needEffects = "no" =>
       \A i \in 1..Len(listeners) : listeners[i] = Len(instances)
  /\ Len(timers) <= 1
-----------------------------------------------------------------------------
(* Termination of the recomputation (component left alone) *)

\* C22: once the user has stopped, the component comes to a state with no
\* recompute timer pending and stays there; what a recompute causes (the new
\* VisibleSet, the render, the effects of that render) starts no recompute.
Quiescence == <>[](timers = <<>>)
====
